---- MODULE Spec2Model ----
(***************************************************************************)
(* Model of fastapi_tracing: the span-to-metric processor                  *)
(* (ops.py, SpanToMetricProcessor), the allow-list construction            *)
(* (app.py, _setup_app) and the application factory with its circular      *)
(* import of the api module (app.py, _create_app; api.py).                 *)
(*                                                                         *)
(* Python values: an Optional value is a sequence, <<>> for None and <<v>> *)
(* for v.  The result of an expression that may raise is a record          *)
(* [ok, val].  A float obtained by true division of two ints is kept as    *)
(* the exact fraction in lowest terms.                                     *)
(***************************************************************************)
EXTENDS FiniteSets, Integers, Sequences, TLC

VARIABLES
    \* ---- SpanToMetricProcessor and the spans handed to on_end ----
    heap,                       \* set objects: "arg" the caller's set, "own" the processor's copy
    self_span_names,            \* self.span_names: a reference into heap
    request_latency_histogram,  \* self.request_latency_histogram: the instrument reference
    span,                       \* per thread: the span on_end was called with
    pc,                         \* per thread: position inside on_end
    start_time_ns,              \* per thread: local of on_end
    end_time_ns,                \* per thread: local of on_end
    latency_ms,                 \* per thread: local of on_end
    metric_attributes,          \* per thread: local of on_end
    reads,                      \* per thread: span fields read during the current call
    samples,                    \* per thread: record() calls made during the current call
    delivered,                  \* number of on_end calls started
    present_matched,            \* number of delivered spans in the allow-list with both timestamps set
    total_records,              \* number of record() calls on the histogram
    constructed_span_names,     \* the allow-list as it was when __init__ returned
    \* ---- application start-up ----
    sys_modules,                \* import state of fastapi_tracing.api
    app_instance,               \* the closure variable of _create_app
    routes,                     \* routes[k]: app.routes of the k-th FastAPI instance
    default_routes,             \* the routes a new FastAPI() starts with
    stack,                      \* the Python call stack (innermost frame last)
    returned,                   \* the instances get_or_create_app has returned
    calls_made,                 \* get_or_create_app calls made from outside the package
    inner_calls,                \* all get_or_create_app calls
    reentrant_calls,            \* get_or_create_app calls made while _setup_app is running
    fastapi_count,              \* FastAPI() constructions
    setup_app_count,            \* _setup_app calls
    allowlist_builds,           \* executions of the allow-list loop
    setup_otel_count,           \* setup_otel calls
    bridge_count,               \* SpanToMetricProcessor constructions
    histogram_count             \* meter.create_histogram calls

bridgeVars == <<heap, self_span_names, request_latency_histogram, constructed_span_names>>
onEndVars == <<span, pc, start_time_ns, end_time_ns, latency_ms, metric_attributes,
               reads, samples, delivered, present_matched, total_records>>
startupVars == <<sys_modules, app_instance, routes, default_routes, stack, returned,
                 calls_made, inner_calls, reentrant_calls, fastapi_count, setup_app_count,
                 allowlist_builds, setup_otel_count, histogram_count, bridge_count>>
vars == <<bridgeVars, onEndVars, startupVars>>

----------------------------------------------------------------------------
\* Bounds

MaxSpans == 3       \* on_end calls per behaviour
MaxCalls == 2       \* get_or_create_app calls from outside the package
MaxRoutes == 2      \* length of a drawn route table

----------------------------------------------------------------------------
\* Python values

None == <<>>
Some(v) == <<v>>
Ok(v) == [ok |-> TRUE, val |-> v]
Err(e) == [ok |-> FALSE, val |-> e]

Abs(n) == IF n < 0 THEN -n ELSE n

RECURSIVE GCD(_, _)
GCD(a, b) == IF b = 0 THEN a ELSE GCD(b, a % b)

\* int / int: Python true division; ZeroDivisionError on a zero divisor.
PyTrueDiv(n, d) ==
    IF d = 0 THEN Err("ZeroDivisionError")
    ELSE LET g == GCD(Abs(n), Abs(d))
             s == IF d < 0 THEN -1 ELSE 1
         IN Ok([num |-> s * (n \div g), den |-> s * (d \div g)])

\* a - b on Optional[int] operands: TypeError when either is None.
PySub(a, b) ==
    IF a = None \/ b = None THEN Err("TypeError") ELSE Ok(a[1] - b[1])

\* `not x` for an Optional[int]: None and 0 are both falsy.
PyNot(x) == x = None \/ x[1] = 0

\* `x not in s` / `x in s` on a set of str: exact string equality.
PyIn(x, s) == x \in s

\* Mapping.get(key): None when the key is missing, never an error.
PyDictGet(d, k) == IF k \in DOMAIN d THEN Ok(Some(d[k])) ELSE Ok(None)

----------------------------------------------------------------------------
\* SpanToMetricProcessor

NsPerMs == 1000000

\* SpanAttributes.HTTP_METHOD, HTTP_ROUTE, HTTP_STATUS_CODE, HTTP_FLAVOR
MetricKeys == {"http.method", "http.route", "http.status_code", "http.flavor"}

\* The semantic-convention key read for each metric dimension.
SpanAttributeKey(k) == k

Threads == {"t1", "t2"}
MainThread == "t1"

SpanNamesDomain == {"GET /ping", "GET /other", "POST /hash"}
BridgeAllowLists == {{"GET /ping"}, {"GET /ping", "POST /hash"}}

StartTimes == {None, Some(0), Some(10000000)}
EndTimes == {None, Some(0), Some(5000000), Some(10000001)}

AttributeSets ==
    { [k \in {} |-> 0],
      [k \in {"http.method"} |-> "GET"],
      [k \in {"http.method", "http.status_code", "other"} |->
          IF k = "http.status_code" THEN 200 ELSE "GET"],
      [k \in MetricKeys |->
          CASE k = "http.method" -> "GET"
            [] k = "http.route" -> "/ping"
            [] k = "http.status_code" -> 200
            [] OTHER -> "1.1"] }

MkSpan(n, s, e, a) == [name |-> n, start_time |-> s, end_time |-> e, attributes |-> a]

Spans == { MkSpan(n, s, e, a) : n \in {"GET /ping", "GET /other"}, s \in StartTimes,
                                e \in EndTimes, a \in AttributeSets }

\* The smaller span domain used under concurrency.
ConcSpans == { MkSpan(n, s, e, [k \in {"http.method"} |-> "GET"]) :
                   n \in {"GET /ping", "GET /other"},
                   s \in {None, Some(0), Some(10000000)},
                   e \in {None, Some(5000000)} }

NoSpan == MkSpan("", None, None, [k \in {} |-> 0])

\* self.span_names = set(span_names): a new set object, not the argument.
InitSpanNamesRef(argRef, copyRef) == copyRef

AllowList == heap[self_span_names]

\* SpanToMetricProcessor.__init__(span_names=names): the fields after construction.
BridgeState(h, ref, hist, cons, names) ==
    /\ h = [arg |-> names, own |-> names]
    /\ ref = InitSpanNamesRef("arg", "own")
    /\ hist = "http.server.request.latency"
    /\ cons = names

\* State after SpanToMetricProcessor(span_names=names) with no span delivered yet.
BridgeInit(names) ==
    BridgeState(heap, self_span_names, request_latency_histogram,
                constructed_span_names, names)

\* No processor has been constructed yet.
NoBridge ==
    /\ heap = [arg |-> {}, own |-> {}]
    /\ self_span_names = "own"
    /\ request_latency_histogram = "unset"
    /\ constructed_span_names = {}

OnEndInit ==
    /\ span = [t \in Threads |-> NoSpan]
    /\ pc = [t \in Threads |-> "idle"]
    /\ start_time_ns = [t \in Threads |-> None]
    /\ end_time_ns = [t \in Threads |-> None]
    /\ latency_ms = [t \in Threads |-> None]
    /\ metric_attributes = [t \in Threads |-> None]
    /\ reads = [t \in Threads |-> {}]
    /\ samples = [t \in Threads |-> <<>>]
    /\ delivered = 0
    /\ present_matched = 0
    /\ total_records = 0

\* The tracing pipeline calls on_end(s) on thread t.
Deliver(t, s) ==
    /\ pc[t] \in {"idle", "returned", "raised"}
    /\ delivered < MaxSpans
    /\ span' = [span EXCEPT ![t] = s]
    /\ pc' = [pc EXCEPT ![t] = "filter"]
    /\ start_time_ns' = [start_time_ns EXCEPT ![t] = None]
    /\ end_time_ns' = [end_time_ns EXCEPT ![t] = None]
    /\ latency_ms' = [latency_ms EXCEPT ![t] = None]
    /\ metric_attributes' = [metric_attributes EXCEPT ![t] = None]
    /\ reads' = [reads EXCEPT ![t] = {}]
    /\ samples' = [samples EXCEPT ![t] = <<>>]
    /\ delivered' = delivered + 1
    /\ present_matched' = IF /\ s.name \in AllowList
                             /\ s.start_time # None
                             /\ s.end_time # None
                          THEN present_matched + 1 ELSE present_matched
    /\ UNCHANGED <<total_records, bridgeVars, startupVars>>

NameFilteredNever(name, names) == FALSE

\* The condition of `if span.name not in self.span_names: return`.
NameFiltered(name, names) == ~PyIn(name, names)

\* if span.name not in self.span_names: return
Filter(t) ==
    /\ pc[t] = "filter"
    /\ reads' = [reads EXCEPT ![t] = @ \cup {"name"}]
    /\ pc' = [pc EXCEPT ![t] = IF NameFiltered(span[t].name, AllowList)
                               THEN "returned" ELSE "times"]
    /\ UNCHANGED <<span, start_time_ns, end_time_ns, latency_ms, metric_attributes,
                   samples, delivered, present_matched, total_records,
                   bridgeVars, startupVars>>

\* start_time_ns = span._start_time; end_time_ns = span._end_time
ReadTimes(t) ==
    /\ pc[t] = "times"
    /\ start_time_ns' = [start_time_ns EXCEPT ![t] = span[t].start_time]
    /\ end_time_ns' = [end_time_ns EXCEPT ![t] = span[t].end_time]
    /\ reads' = [reads EXCEPT ![t] = @ \cup {"_start_time", "_end_time"}]
    /\ pc' = [pc EXCEPT ![t] = "validity"]
    /\ UNCHANGED <<span, latency_ms, metric_attributes, samples, delivered,
                   present_matched, total_records, bridgeVars, startupVars>>

TimesRejectedStartOnly(s, e) == PyNot(s)

\* The condition of `if not start_time_ns or not end_time_ns: return`.
TimesRejected(s, e) == PyNot(s) \/ PyNot(e)

\* if not start_time_ns or not end_time_ns: return
Validity(t) ==
    /\ pc[t] = "validity"
    /\ pc' = [pc EXCEPT ![t] = IF TimesRejected(start_time_ns[t], end_time_ns[t])
                               THEN "returned" ELSE "latency"]
    /\ UNCHANGED <<span, start_time_ns, end_time_ns, latency_ms, metric_attributes,
                   reads, samples, delivered, present_matched, total_records,
                   bridgeVars, startupVars>>

\* (end_time_ns - start_time_ns) / 1_000_000
LatencyMs(s, e) ==
    LET d == PySub(e, s)
    IN IF d.ok THEN PyTrueDiv(d.val, NsPerMs) ELSE d

\* latency_ms = (end_time_ns - start_time_ns) / 1_000_000
Latency(t) ==
    LET r == LatencyMs(start_time_ns[t], end_time_ns[t])
    IN /\ pc[t] = "latency"
       /\ IF r.ok
          THEN /\ latency_ms' = [latency_ms EXCEPT ![t] = Some(r.val)]
               /\ pc' = [pc EXCEPT ![t] = "attributes"]
          ELSE /\ pc' = [pc EXCEPT ![t] = "raised"]
               /\ UNCHANGED latency_ms
       /\ UNCHANGED <<span, start_time_ns, end_time_ns, metric_attributes, reads,
                      samples, delivered, present_matched, total_records,
                      bridgeVars, startupVars>>

ExtractAttributeSubscript(attrs, k) ==
    IF SpanAttributeKey(k) \in DOMAIN attrs
    THEN Ok(Some(attrs[SpanAttributeKey(k)])) ELSE Err("KeyError")

ExtractAttributeNoFlavor(attrs, k) ==
    IF k = "http.flavor" THEN Ok(None) ELSE PyDictGet(attrs, SpanAttributeKey(k))

\* span.attributes.get(<key>) for one metric dimension
ExtractAttribute(attrs, k) == PyDictGet(attrs, SpanAttributeKey(k))

\* metric_attributes = {"http.method": ..., "http.route": ..., ...}
Attributes(t) ==
    LET r == [k \in MetricKeys |-> ExtractAttribute(span[t].attributes, k)]
    IN /\ pc[t] = "attributes"
       /\ reads' = [reads EXCEPT ![t] = @ \cup {"attributes"}]
       /\ IF \A k \in MetricKeys : r[k].ok
          THEN /\ metric_attributes' =
                     [metric_attributes EXCEPT ![t] = Some([k \in MetricKeys |-> r[k].val])]
               /\ pc' = [pc EXCEPT ![t] = "record"]
          ELSE /\ pc' = [pc EXCEPT ![t] = "raised"]
               /\ UNCHANGED metric_attributes
       /\ UNCHANGED <<span, start_time_ns, end_time_ns, latency_ms, samples, delivered,
                      present_matched, total_records, bridgeVars, startupVars>>

\* self.request_latency_histogram.record(amount=latency_ms, attributes=metric_attributes)
Record(t) ==
    /\ pc[t] = "record"
    /\ samples' = [samples EXCEPT ![t] =
                      Append(@, [amount |-> latency_ms[t][1],
                                 attributes |-> metric_attributes[t][1],
                                 instrument |-> request_latency_histogram])]
    /\ total_records' = total_records + 1
    /\ pc' = [pc EXCEPT ![t] = "returned"]
    /\ UNCHANGED <<span, start_time_ns, end_time_ns, latency_ms, metric_attributes,
                   reads, delivered, present_matched, bridgeVars, startupVars>>

\* The caller of the constructor later adds a name to the set it passed in.
MutateCallerSet(n) ==
    /\ n \notin heap["arg"]
    /\ heap' = [heap EXCEPT !["arg"] = @ \cup {n}]
    /\ UNCHANGED <<self_span_names, request_latency_histogram, constructed_span_names,
                   onEndVars, startupVars>>

OnEndStep(t) ==
    \/ Filter(t)
    \/ ReadTimes(t)
    \/ Validity(t)
    \/ Latency(t)
    \/ Attributes(t)
    \/ Record(t)

StartupIdle ==
    /\ sys_modules = "absent"
    /\ app_instance = None
    /\ routes = <<>>
    /\ default_routes = <<>>
    /\ stack = <<>>
    /\ returned = {}
    /\ calls_made = 0
    /\ inner_calls = 0
    /\ reentrant_calls = 0
    /\ fastapi_count = 0
    /\ setup_app_count = 0
    /\ allowlist_builds = 0
    /\ setup_otel_count = 0
    /\ bridge_count = 0
    /\ histogram_count = 0

\* One processor, spans delivered one at a time on a single thread.
Init ==
    /\ \E names \in BridgeAllowLists : BridgeInit(names)
    /\ OnEndInit
    /\ StartupIdle

Next ==
    \/ \E s \in Spans : Deliver(MainThread, s)
    \/ OnEndStep(MainThread)
    \/ \E n \in SpanNamesDomain : MutateCallerSet(n)

Spec == Init /\ [][Next]_vars

\* One processor, on_end running concurrently on the threads of Threads.
NextConc ==
    \/ \E t \in Threads : \E s \in ConcSpans : Deliver(t, s)
    \/ \E t \in Threads : OnEndStep(t)
    \/ \E n \in SpanNamesDomain : MutateCallerSet(n)

SpecConc == Init /\ [][NextConc]_vars

----------------------------------------------------------------------------
\* Application start-up: app.py and the module body of api.py

MkRoute(p, ms) == [path |-> p, methods |-> ms]

\* The routes declared by the decorators of api.py, in source order.
ApiRoutes ==
    << MkRoute("/", {"GET"}),
       MkRoute("/ping", {"GET"}),
       MkRoute("/session", {"GET"}),
       MkRoute("/slowish", {"GET"}),
       MkRoute("/slow/and/unstable", {"GET"}),
       MkRoute("/hash", {"POST"}) >>

\* The routes FastAPI() registers by itself (schema and documentation pages);
\* the framework is outside this repository, so both an empty table and the
\* documentation routes are considered.
DefaultRouteTables ==
    { <<>>,
      << MkRoute("/openapi.json", {"GET", "HEAD"}),
         MkRoute("/docs", {"GET", "HEAD"}) >> }

\* Route tables the allow-list loop is applied to on its own.
RouteChoices ==
    { MkRoute("/ping", {"GET"}),
      MkRoute("/hash", {"POST"}),
      MkRoute("/slow/and/unstable", {"GET"}),
      MkRoute("/ping", {"GET", "POST"}) }

RouteTables == UNION { [1..n -> RouteChoices] : n \in 0..MaxRoutes }

Frame(fn, p, a) ==
    [fn |-> fn, pc |-> p, app |-> a, i |-> 0, methods_left |-> {}, acc |-> {}]

Top == stack[Len(stack)]
SetTop(f) == [stack EXCEPT ![Len(stack)] = f]
Pop == SubSeq(stack, 1, Len(stack) - 1)
InSetupApp == \E k \in DOMAIN stack : stack[k].fn = "_setup_app"

SpanNamePathFirst(method, path) == path \o " " \o method

\* f"{method} {route.path}"
SpanName(method, path) == method \o " " \o path

NeedsCreateAlways(inst) == TRUE

\* The condition of `if not app_instance:` (a FastAPI object is truthy).
NeedsCreate(inst) == inst = None

\* Code outside the package calls get_or_create_app().
OutsideCall ==
    /\ stack = <<>>
    /\ calls_made < MaxCalls
    /\ stack' = <<Frame("inner", "check", 0)>>
    /\ calls_made' = calls_made + 1
    /\ inner_calls' = inner_calls + 1
    /\ UNCHANGED <<sys_modules, app_instance, routes, default_routes, returned,
                   reentrant_calls, fastapi_count, setup_app_count, allowlist_builds,
                   setup_otel_count, bridge_count, histogram_count, bridgeVars, onEndVars>>

\* Code outside the package imports fastapi_tracing.api before anything else
\* imported it: the module is entered in sys.modules and its body starts.
OutsideImportApi ==
    /\ stack = <<>>
    /\ sys_modules = "absent"
    /\ sys_modules' = "initializing"
    /\ stack' = <<Frame("api", "get_app", 0)>>
    /\ UNCHANGED <<app_instance, routes, default_routes, returned, calls_made, inner_calls,
                   reentrant_calls, fastapi_count, setup_app_count, allowlist_builds,
                   setup_otel_count, bridge_count, histogram_count, bridgeVars, onEndVars>>

\* inner(): if not app_instance: app_instance = FastAPI(); _setup_app(app_instance)
InnerCheck ==
    /\ stack # <<>>
    /\ Top.fn = "inner"
    /\ Top.pc = "check"
    /\ IF NeedsCreate(app_instance)
       THEN /\ app_instance' = Some(fastapi_count + 1)
            /\ fastapi_count' = fastapi_count + 1
            /\ routes' = Append(routes, default_routes)
            /\ setup_app_count' = setup_app_count + 1
            /\ stack' = Append(SetTop([Top EXCEPT !.pc = "return"]),
                               Frame("_setup_app", "import_api", fastapi_count + 1))
       ELSE /\ stack' = SetTop([Top EXCEPT !.pc = "return"])
            /\ UNCHANGED <<app_instance, fastapi_count, routes, setup_app_count>>
    /\ UNCHANGED <<sys_modules, default_routes, returned, calls_made, inner_calls,
                   reentrant_calls, allowlist_builds, setup_otel_count, bridge_count,
                   histogram_count, bridgeVars, onEndVars>>

\* inner(): return app_instance; in api.py the value is bound to `app`.
InnerReturn ==
    /\ stack # <<>>
    /\ Top.fn = "inner"
    /\ Top.pc = "return"
    /\ returned' = returned \cup {app_instance[1]}
    /\ stack' = IF Len(stack) > 1 /\ stack[Len(stack) - 1].fn = "api"
                THEN [Pop EXCEPT ![Len(stack) - 1] =
                         [@ EXCEPT !.pc = "decorators", !.app = app_instance[1], !.i = 1]]
                ELSE Pop
    /\ UNCHANGED <<sys_modules, app_instance, routes, default_routes, calls_made,
                   inner_calls, reentrant_calls, fastapi_count, setup_app_count,
                   allowlist_builds, setup_otel_count, bridge_count, histogram_count,
                   bridgeVars, onEndVars>>

\* _setup_app: from . import api.  A module absent from sys.modules is
\* executed now; one that is there, even partially initialised, is bound as is.
SetupImportApi ==
    /\ stack # <<>>
    /\ Top.fn = "_setup_app"
    /\ Top.pc = "import_api"
    /\ IF sys_modules = "absent"
       THEN /\ sys_modules' = "initializing"
            /\ stack' = Append(SetTop([Top EXCEPT !.pc = "loop_start"]),
                               Frame("api", "get_app", 0))
       ELSE /\ stack' = SetTop([Top EXCEPT !.pc = "loop_start"])
            /\ UNCHANGED sys_modules
    /\ UNCHANGED <<app_instance, routes, default_routes, returned, calls_made, inner_calls,
                   reentrant_calls, fastapi_count, setup_app_count, allowlist_builds,
                   setup_otel_count, bridge_count, histogram_count, bridgeVars, onEndVars>>

\* _setup_app: spans_to_emit_as_metrics = set(); the loop over app.routes begins.
SetupLoopStart ==
    /\ stack # <<>>
    /\ Top.fn = "_setup_app"
    /\ Top.pc = "loop_start"
    /\ stack' = SetTop([Top EXCEPT !.pc = "loop", !.i = 1, !.acc = {}])
    /\ allowlist_builds' = allowlist_builds + 1
    /\ UNCHANGED <<sys_modules, app_instance, routes, default_routes, returned, calls_made,
                   inner_calls, reentrant_calls, fastapi_count, setup_app_count,
                   setup_otel_count, bridge_count, histogram_count, bridgeVars, onEndVars>>

\* _setup_app: for route in app.routes
SetupLoopRoute ==
    /\ stack # <<>>
    /\ Top.fn = "_setup_app"
    /\ Top.pc = "loop"
    /\ stack' = IF Top.i > Len(routes[Top.app])
                THEN SetTop([Top EXCEPT !.pc = "setup_otel"])
                ELSE SetTop([Top EXCEPT !.pc = "methods",
                                        !.methods_left = routes[Top.app][Top.i].methods])
    /\ UNCHANGED <<sys_modules, app_instance, routes, default_routes, returned, calls_made,
                   inner_calls, reentrant_calls, fastapi_count, setup_app_count,
                   allowlist_builds, setup_otel_count, bridge_count, histogram_count,
                   bridgeVars, onEndVars>>

\* _setup_app: for method in route.methods: spans_to_emit_as_metrics.add(...)
\* (a set is iterated in an unspecified order)
SetupLoopMethod ==
    /\ stack # <<>>
    /\ Top.fn = "_setup_app"
    /\ Top.pc = "methods"
    /\ IF Top.methods_left = {}
       THEN stack' = SetTop([Top EXCEPT !.pc = "loop", !.i = @ + 1])
       ELSE \E m \in Top.methods_left :
               stack' = SetTop([Top EXCEPT
                           !.acc = @ \cup {SpanName(m, routes[Top.app][Top.i].path)},
                           !.methods_left = @ \ {m}])
    /\ UNCHANGED <<sys_modules, app_instance, routes, default_routes, returned, calls_made,
                   inner_calls, reentrant_calls, fastapi_count, setup_app_count,
                   allowlist_builds, setup_otel_count, bridge_count, histogram_count,
                   bridgeVars, onEndVars>>

\* _setup_app: setup_otel(app, spans_to_emit_as_metrics); the processor is
\* constructed only `if span_metrics_names:` (a non-empty set).
SetupOtel ==
    /\ stack # <<>>
    /\ Top.fn = "_setup_app"
    /\ Top.pc = "setup_otel"
    /\ setup_otel_count' = setup_otel_count + 1
    /\ IF Top.acc # {}
       THEN /\ BridgeState(heap', self_span_names', request_latency_histogram',
                           constructed_span_names', Top.acc)
            /\ bridge_count' = bridge_count + 1
            /\ histogram_count' = histogram_count + 1
       ELSE UNCHANGED <<bridgeVars, bridge_count, histogram_count>>
    /\ stack' = SetTop([Top EXCEPT !.pc = "done"])
    /\ UNCHANGED <<sys_modules, app_instance, routes, default_routes, returned, calls_made,
                   inner_calls, reentrant_calls, fastapi_count, setup_app_count,
                   allowlist_builds, onEndVars>>

\* _setup_app returns to inner().
SetupReturn ==
    /\ stack # <<>>
    /\ Top.fn = "_setup_app"
    /\ Top.pc = "done"
    /\ stack' = Pop
    /\ UNCHANGED <<sys_modules, app_instance, routes, default_routes, returned, calls_made,
                   inner_calls, reentrant_calls, fastapi_count, setup_app_count,
                   allowlist_builds, setup_otel_count, bridge_count, histogram_count,
                   bridgeVars, onEndVars>>

\* api.py: app = get_or_create_app()
ApiGetApp ==
    /\ stack # <<>>
    /\ Top.fn = "api"
    /\ Top.pc = "get_app"
    /\ stack' = Append(SetTop([Top EXCEPT !.pc = "await_app"]), Frame("inner", "check", 0))
    /\ inner_calls' = inner_calls + 1
    /\ reentrant_calls' = IF InSetupApp THEN reentrant_calls + 1 ELSE reentrant_calls
    /\ UNCHANGED <<sys_modules, app_instance, routes, default_routes, returned, calls_made,
                   fastapi_count, setup_app_count, allowlist_builds, setup_otel_count,
                   bridge_count, histogram_count, bridgeVars, onEndVars>>

\* api.py: one @app.get(...) / @app.post(...) decorator appends its route.
ApiDecorator ==
    /\ stack # <<>>
    /\ Top.fn = "api"
    /\ Top.pc = "decorators"
    /\ Top.i <= Len(ApiRoutes)
    /\ routes' = [routes EXCEPT ![Top.app] = Append(@, ApiRoutes[Top.i])]
    /\ stack' = SetTop([Top EXCEPT !.i = @ + 1])
    /\ UNCHANGED <<sys_modules, app_instance, default_routes, returned, calls_made,
                   inner_calls, reentrant_calls, fastapi_count, setup_app_count,
                   allowlist_builds, setup_otel_count, bridge_count, histogram_count,
                   bridgeVars, onEndVars>>

\* api.py: the module body ends; the import of api is complete.
ApiDone ==
    /\ stack # <<>>
    /\ Top.fn = "api"
    /\ Top.pc = "decorators"
    /\ Top.i > Len(ApiRoutes)
    /\ sys_modules' = "loaded"
    /\ stack' = Pop
    /\ UNCHANGED <<app_instance, routes, default_routes, returned, calls_made, inner_calls,
                   reentrant_calls, fastapi_count, setup_app_count, allowlist_builds,
                   setup_otel_count, bridge_count, histogram_count, bridgeVars, onEndVars>>

\* A fresh interpreter: nothing imported, no application yet.
InitStartup ==
    /\ NoBridge
    /\ OnEndInit
    /\ sys_modules = "absent"
    /\ app_instance = None
    /\ routes = <<>>
    /\ default_routes \in DefaultRouteTables
    /\ stack = <<>>
    /\ returned = {}
    /\ calls_made = 0
    /\ inner_calls = 0
    /\ reentrant_calls = 0
    /\ fastapi_count = 0
    /\ setup_app_count = 0
    /\ allowlist_builds = 0
    /\ setup_otel_count = 0
    /\ bridge_count = 0
    /\ histogram_count = 0

NextStartup ==
    \/ OutsideCall
    \/ OutsideImportApi
    \/ InnerCheck
    \/ InnerReturn
    \/ SetupImportApi
    \/ SetupLoopStart
    \/ SetupLoopRoute
    \/ SetupLoopMethod
    \/ SetupOtel
    \/ SetupReturn
    \/ ApiGetApp
    \/ ApiDecorator
    \/ ApiDone

SpecStartup == InitStartup /\ [][NextStartup]_vars

\* The allow-list loop of _setup_app applied to a drawn route table.
InitRoutes ==
    /\ NoBridge
    /\ OnEndInit
    /\ sys_modules = "loaded"
    /\ app_instance = Some(1)
    /\ routes \in { <<rt>> : rt \in RouteTables }
    /\ default_routes = <<>>
    /\ stack = <<Frame("_setup_app", "loop_start", 1)>>
    /\ returned = {}
    /\ calls_made = 0
    /\ inner_calls = 0
    /\ reentrant_calls = 0
    /\ fastapi_count = 1
    /\ setup_app_count = 1
    /\ allowlist_builds = 0
    /\ setup_otel_count = 0
    /\ bridge_count = 0
    /\ histogram_count = 0

NextRoutes ==
    \/ SetupLoopStart
    \/ SetupLoopRoute
    \/ SetupLoopMethod
    \/ SetupOtel
    \/ SetupReturn

SpecRoutes == InitRoutes /\ [][NextRoutes]_vars

----------------------------------------------------------------------------
\* Properties

Quiescent(t) == pc[t] \in {"idle", "returned", "raised"}

\* amount is exactly (end - start) / 1_000_000
AmountIs(amount, s, e) ==
    /\ amount.den > 0
    /\ amount.num * 1000000 = (e[1] - s[1]) * amount.den

\* C1: once on_end has returned for a span whose name is in the allow-list and
\* whose start and end timestamps are both present (a start of 0 included),
\* exactly one record call was made, with amount (end - start) / 1_000_000.
C1_OneSamplePerPresentSpan ==
    \A t \in Threads :
        ( /\ pc[t] = "returned"
          /\ span[t].name \in AllowList
          /\ span[t].start_time # None
          /\ span[t].end_time # None )
        => /\ Len(samples[t]) = 1
           /\ AmountIs(samples[t][1].amount, span[t].start_time, span[t].end_time)

\* C2: for a span whose name is not in the allow-list, on_end records nothing,
\* raises nothing, and reads no field of the span other than its name.
C2_FilteredSpanNoEffect ==
    \A t \in Threads :
        (pc[t] # "idle" /\ span[t].name \notin AllowList)
        => /\ samples[t] = <<>>
           /\ pc[t] \in {"filter", "returned"}
           /\ reads[t] \subseteq {"name"}

C2_Witness ==
    \E t \in Threads :
        /\ pc[t] = "returned"
        /\ span[t].name = "GET /other"
        /\ "GET /ping" \in AllowList
        /\ reads[t] = {"name"}
        /\ span[t].start_time = Some(0)
        /\ span[t].end_time = Some(5000000)
        /\ DOMAIN span[t].attributes = MetricKeys

\* C3: for an allow-listed span whose start_time or end_time is None, on_end
\* records nothing and raises nothing.
C3_MissingTimestampDropped ==
    \A t \in Threads :
        ( /\ pc[t] # "idle"
          /\ span[t].name \in AllowList
          /\ (span[t].start_time = None \/ span[t].end_time = None) )
        => /\ samples[t] = <<>>
           /\ pc[t] \in {"filter", "times", "validity", "returned"}

C3_Witness ==
    \E t \in Threads :
        /\ pc[t] = "returned"
        /\ span[t].name = "GET /ping"
        /\ span[t].name \in AllowList
        /\ span[t].start_time = Some(10000000)
        /\ span[t].end_time = None
        /\ samples[t] = <<>>

\* C4: every recorded sample has exactly the four keys http.method, http.route,
\* http.status_code and http.flavor; each value is the span attribute of the
\* same key, or None when the span lacks that key; once the attributes have
\* been extracted the sample is recorded and nothing is raised.
C4_FourIndependentDimensions ==
    \A t \in Threads :
        /\ \A i \in 1..Len(samples[t]) :
              /\ DOMAIN samples[t][i].attributes =
                    {"http.method", "http.route", "http.status_code", "http.flavor"}
              /\ \A k \in DOMAIN samples[t][i].attributes :
                    samples[t][i].attributes[k] =
                        IF k \in DOMAIN span[t].attributes
                        THEN <<span[t].attributes[k]>> ELSE <<>>
        /\ (pc[t] \in {"attributes", "record"}) => samples[t] = <<>>
        /\ (pc[t] = "returned" /\ latency_ms[t] # None) => Len(samples[t]) = 1
        /\ (latency_ms[t] # None) => pc[t] # "raised"

C4_Witness ==
    \E t \in Threads :
        /\ pc[t] = "returned"
        /\ DOMAIN span[t].attributes = {"http.method"}
        /\ Len(samples[t]) = 1
        /\ samples[t][1].attributes["http.method"] = <<"GET">>
        /\ samples[t][1].attributes["http.route"] = <<>>
        /\ samples[t][1].attributes["http.status_code"] = <<>>
        /\ samples[t][1].attributes["http.flavor"] = <<>>

\* C6: on_end never raises, whatever span it is handed.
C6_OnEndNeverRaises ==
    \A t \in Threads : pc[t] # "raised"

C6_Witness ==
    \E t \in Threads :
        /\ pc[t] = "returned"
        /\ span[t].name \in AllowList
        /\ DOMAIN span[t].attributes = {}
        /\ Len(samples[t]) = 1
        /\ delivered >= 2

\* C7: once on_end has returned for an allow-listed span with both timestamps
\* present and end_time earlier than start_time, exactly one record call was
\* made, with the negative amount (end - start) / 1_000_000.
C7_NegativeDurationRecorded ==
    \A t \in Threads :
        ( /\ pc[t] = "returned"
          /\ span[t].name \in AllowList
          /\ span[t].start_time # None
          /\ span[t].end_time # None
          /\ span[t].end_time[1] < span[t].start_time[1] )
        => /\ Len(samples[t]) = 1
           /\ samples[t][1].amount.num < 0
           /\ AmountIs(samples[t][1].amount, span[t].start_time, span[t].end_time)

\* C10: under concurrent on_end calls the allow-list and the histogram
\* reference stay what the constructor set (also when the caller mutates the
\* set it passed in), no span is mutated during a call, and when no call is in
\* progress the number of record calls equals the number of delivered spans
\* that are allow-listed and have both timestamps.
C10_ReadOnlyStateAndOneRecordPerSpan ==
    /\ [](/\ AllowList = constructed_span_names
          /\ request_latency_histogram = "http.server.request.latency"
          /\ ((\A t \in Threads : Quiescent(t)) => total_records = present_matched))
    /\ [][\A t \in Threads : ~Quiescent(t) => span'[t] = span[t]]_vars

ToUpper(m) ==
    CASE m = "get" -> "GET"
      [] m = "post" -> "POST"
      [] m = "head" -> "HEAD"
      [] OTHER -> m

ExpectedAllowList(rt) ==
    UNION { { ToUpper(m) \o " " \o rt[k].path : m \in rt[k].methods } : k \in DOMAIN rt }

\* C5: when the loop of _setup_app has finished, the allow-list is exactly the
\* set of "<METHOD> <path>" over every route of the table and every method of
\* that route, whatever the order of the routes and of the methods; the
\* processor receives that set.
C5_AllowListIsRouteMethodSet ==
    \A k \in DOMAIN stack :
        (stack[k].fn = "_setup_app" /\ stack[k].pc \in {"setup_otel", "done"})
        => /\ stack[k].acc = ExpectedAllowList(routes[stack[k].app])
           /\ (stack[k].pc = "done" /\ stack[k].acc # {}) => AllowList = stack[k].acc

C5_Witness ==
    /\ stack # <<>>
    /\ Top.pc = "done"
    /\ routes[1] = << MkRoute("/ping", {"GET", "POST"}), MkRoute("/ping", {"GET"}) >>
    /\ AllowList = {"GET /ping", "POST /ping"}

\* C8: whenever _setup_app is in or past its allow-list loop, every route that
\* api.py declares is already in app.routes, and the finished allow-list holds
\* the name of each of them.
C8_ApiRoutesRegisteredBeforeAllowList ==
    \A k \in DOMAIN stack :
        (stack[k].fn = "_setup_app" /\ stack[k].pc \in {"loop", "methods", "setup_otel", "done"})
        => /\ \A j \in DOMAIN ApiRoutes :
                 \E i \in DOMAIN routes[stack[k].app] : routes[stack[k].app][i] = ApiRoutes[j]
           /\ stack[k].pc \in {"setup_otel", "done"} =>
                 {"GET /", "GET /ping", "GET /session", "GET /slowish",
                  "GET /slow/and/unstable", "POST /hash"} \subseteq stack[k].acc

\* C9: every get_or_create_app call returns the same instance, and FastAPI(),
\* _setup_app, the allow-list loop, setup_otel, the processor and the histogram
\* are each constructed or run at most once.
C9_SingleConstruction ==
    /\ Cardinality(returned) <= 1
    /\ fastapi_count <= 1
    /\ setup_app_count <= 1
    /\ allowlist_builds <= 1
    /\ setup_otel_count <= 1
    /\ bridge_count <= 1
    /\ histogram_count <= 1

C9_Witness ==
    /\ stack = <<>>
    /\ inner_calls >= 3
    /\ reentrant_calls = 1
    /\ Cardinality(returned) = 1
    /\ fastapi_count = 1
    /\ bridge_count = 1

====
